---- MODULE Spec2Model ----
(***************************************************************************)
(* Model of runRailwayAgent (src/src/railway-runner.ts): the supervisor of *)
(* one worker process.  One behaviour is one invocation.                   *)
(*                                                                         *)
(* Text is modelled as a sequence of tokens.  A token stands for a run of  *)
(* characters: "-" is "---", "S" is "NANOCLAW_OUTPUT_START", "E" is        *)
(* "NANOCLAW_OUTPUT_END", so that the two markers keep the prefix and      *)
(* suffix they share in the source.  "{" p "}" is a JSON document whose    *)
(* content is named by the token p; " " and "\n" are white space; every    *)
(* other token is text that is no JSON.                                    *)
(*                                                                         *)
(* Time is counted in ticks of 15 seconds.                                 *)
(***************************************************************************)
EXTENDS Integers, Sequences, FiniteSets, TLC

\* ------------------------------------------------------------------ bounds
\* config.js is read from the environment; the model runs a small
\* configuration so that every limit is reached.
CONTAINER_MAX_OUTPUT_SIZE == 10
\* ticks
CONTAINER_TIMEOUT == 2
\* ticks
IDLE_TIMEOUT == 1
\* stderr.slice(-200): the number of trailing tokens kept in the message
TailLen == 2
\* a 'data' event of stdout carries at most MaxChunk tokens, or else all
\* the worker has left to write
MaxChunk == 4
\* the length of every stderr chunk
ErrChunk == 9

\* --------------------------------------------------------- program constants
\* 30_000 ms
SafetyMargin == 2
\* 15000 ms
KillDelay == 1

OUTPUT_START_MARKER == <<"-", "S", "-">>
OUTPUT_END_MARKER == <<"-", "E", "-">>

\* a cleared or fired timer
Off == -1

\* ------------------------------------------------------------ text helpers
Min(a, b) == IF a < b THEN a ELSE b

Max(a, b) == IF a > b THEN a ELSE b

SetMin(S) == CHOOSE i \in S : \A j \in S : i <= j

SetMax(S) == CHOOSE i \in S : \A j \in S : i >= j

\* String.prototype.slice(a, b) with 0-based a, b >= 0
slice(s, a, b) ==
  LET lo == Min(a, Len(s))
      hi == Min(b, Len(s))
  IN  IF hi <= lo THEN <<>> ELSE SubSeq(s, lo + 1, hi)

\* String.prototype.slice(a) with a >= 0
sliceFrom(s, a) == slice(s, a, Len(s))

MatchAt(s, m, i) ==
  /\ i + Len(m) <= Len(s)
  /\ \A k \in 1..Len(m) : s[i + k] = m[k]

\* String.prototype.indexOf(m, from): 0-based, -1 when absent
indexOf(s, m, from) ==
  LET c == {i \in from..(Len(s) - Len(m)) : MatchAt(s, m, i)}
  IN  IF c = {} THEN -1 ELSE SetMin(c)

IsWs(c) == c \in {" ", "\n"}

\* String.prototype.trim()
trim(s) ==
  LET nz == {i \in 1..Len(s) : ~IsWs(s[i])}
  IN  IF nz = {} THEN <<>> ELSE SubSeq(s, SetMin(nz), SetMax(nz))

\* the last element of split('\n')
LastLine(s) ==
  LET nl == {i \in 1..Len(s) : s[i] = "\n"}
  IN  IF nl = {} THEN s ELSE SubSeq(s, SetMax(nl) + 1, Len(s))

\* ------------------------------------------------------------------- JSON
Payloads == {"ok", "s1", "s2"}

\* the ContainerOutput a document denotes
Doc(p) ==
  [status |-> "success",
   result |-> IF p = "ok" THEN "ok" ELSE "r",
   newSessionId |-> IF p = "ok" THEN "undefined" ELSE p,
   error |-> <<>>]

NoDoc == [status |-> "none", result |-> "none", newSessionId |-> "undefined", error |-> <<>>]

\* JSON.parse: white space around the document is allowed, anything else throws
JSONparse(s) ==
  LET t == trim(s)
  IN  IF Len(t) = 3 /\ t[1] = "{" /\ t[3] = "}" /\ t[2] \in Payloads
        THEN [ok |-> TRUE, value |-> Doc(t[2])]
        ELSE [ok |-> FALSE, value |-> NoDoc]

\* ------------------------------------------------------- the worker's output
S == OUTPUT_START_MARKER

E == OUTPUT_END_MARKER

J(p) == <<"{", p, "}">>

Frame(p) == S \o J(p) \o E

\* what a worker may write to stdout over its whole life; it may end after
\* any prefix, so every prefix of these is an output too
Texts ==
  { <<"x">> \o S \o <<" ">> \o J("s1") \o <<"\n">> \o E \o <<"x">>,
    Frame("s1") \o Frame("s2"),
    Frame("s2") \o Frame("ok"),
    S \o <<"x">> \o E \o Frame("ok"),
    E \o <<"-", "S", "-", "E", "-">> \o Frame("ok"),
    <<"x", "\n">> \o J("ok") }

\* what a worker writes to stderr, over and over: a text that holds a
\* complete record, so that a stderr chunk can carry one
ErrTokens == Frame("s1") \o <<"e1">>

ErrStream(n) == [i \in 1..n |-> ErrTokens[((i - 1) % Len(ErrTokens)) + 1]]

\* group.containerConfig?.timeout; 0 stands for an absent override
GroupTimeouts == {0, 4}

\* the invocations of the model: every output without an override, and the
\* outputs that hold at most one frame with one
Invocations ==
  {in \in [text : Texts, groupTimeout : GroupTimeouts] :
     in.groupTimeout # 0 => Len(in.text) < 2 * Len(Frame("ok"))}

\* ------------------------------------------------------------------- state
VARIABLES
  pc,                 \* where the promise executor stands; "run" once it returned
  secrets,            \* whether the input object has a secrets field
  stdin,              \* what was written to the worker's stdin
  handles,            \* the calls of onProcess so far, each with its arguments
  hasOnOutput,        \* whether onOutput was supplied
  groupTimeout,       \* group.containerConfig?.timeout
  text,               \* everything the worker will ever write to stdout
  pos,                \* how much of text the 'data' events have delivered
  errPos,             \* how much of the stderr stream has been delivered
  proc,               \* "failed" (spawn failed), "running", "exited"
  stdout, stderr, stdoutTruncated, stderrTruncated,
  parseBuffer, newSessionId, outputChain, timedOut, hadStreamingOutput,
  timeout,            \* ticks left on the timer, or Off
  killTimers,         \* ticks left on each pending escalation timer
  killed,             \* child.killed
  signals,            \* the signals delivered to the worker
  promise,            \* the returned promise: [settled, value]
  thens,              \* links of outputChain a resolving reaction is attached to
  closed, errored,    \* the 'close' / 'error' handler has run
  exitCode,           \* the code the 'close' handler was given
  logs,               \* log files written
  resolveCalls,       \* history: calls of resolve
  idle,               \* history: ticks since spawn or the last complete record,
                      \* counted until the 'close' or 'error' event (then 0)
  firedBeforeOutput,  \* history: the timer first fired with no record streamed
  capture,            \* a captured stdout handed to the legacy parse
  outcome,            \* what the legacy parse made of capture
  disk,               \* the volume: directories and files prepareWorkspace touches
  image,              \* what prepareWorkspace reads: templates, skills, name, isMain
  calls,              \* how often prepareWorkspace has been called
  paths,              \* what the last call returned
  once,               \* history: disk and paths after the first call
  policy,             \* a timeout configuration: override, default, idle threshold
  armed,              \* the delay last handed to setTimeout for it, or Off
  rearms              \* how often that timer has been reset

\* the state of the promise executor before the handlers run
startup == <<pc, secrets, stdin, handles>>

\* the state of one invocation of runRailwayAgent
invocation ==
  <<hasOnOutput, groupTimeout, text, pos, errPos, proc,
    stdout, stderr, stdoutTruncated, stderrTruncated,
    parseBuffer, newSessionId, outputChain, timedOut, hadStreamingOutput,
    timeout, killTimers, killed, signals, promise, thens,
    closed, errored, exitCode, logs, resolveCalls, idle, firedBeforeOutput>>

\* the state of the functions that are checked on their own
pure == <<capture, outcome, disk, image, calls, paths, once, policy, armed, rearms>>

vars == <<startup, invocation, pure>>

\* v || d for an optional number v = [set, ms]: undefined and 0 give d
OrDefault(v, d) == IF v.set /\ v.ms # 0 THEN v.ms ELSE d

\* the computation as it would be without the floor
TimeoutMs_config(config, idleTimeout) == config

\* Math.max(configTimeout, IDLE_TIMEOUT + 30_000)
TimeoutMs(config, idleTimeout) == Max(config, idleTimeout + SafetyMargin)

configTimeout == OrDefault([set |-> groupTimeout # 0, ms |-> groupTimeout], CONTAINER_TIMEOUT)

timeoutMs == TimeoutMs(configTimeout, IDLE_TIMEOUT)

\* ------------------------------------------------------ the timeout policy
\* the largest number of ticks a configuration names
MaxMs == 4

\* how often the timer is reset
MaxRearms == 2

\* group.containerConfig?.timeout: undefined, or a number
Overrides ==
  {[set |-> FALSE, ms |-> 0]} \cup {[set |-> TRUE, ms |-> n] : n \in -1..MaxMs}

\* an override, CONTAINER_TIMEOUT and IDLE_TIMEOUT
Policies == [override : Overrides, default : 1..MaxMs, idle : 0..MaxMs]

TimerIdle ==
  /\ policy = [override |-> [set |-> FALSE, ms |-> 0],
               default |-> CONTAINER_TIMEOUT, idle |-> IDLE_TIMEOUT]
  /\ armed = Off
  /\ rearms = 0

\* the delay computed for a configuration
PolicyTimeout(p) == TimeoutMs(OrDefault(p.override, p.default), p.idle)

\* let timeout = setTimeout(killOnTimeout, timeoutMs)
ArmTimeout ==
  /\ armed = Off
  /\ armed' = PolicyTimeout(policy)
  /\ UNCHANGED <<policy, rearms, capture, outcome, disk, image, calls, paths, once,
                 startup, invocation>>

\* resetTimeout()
ResetTimeout ==
  /\ armed # Off
  /\ rearms < MaxRearms
  /\ armed' = PolicyTimeout(policy)
  /\ rearms' = rearms + 1
  /\ UNCHANGED <<policy, capture, outcome, disk, image, calls, paths, once,
                 startup, invocation>>

\* the executor's own state right after spawn; the caller's input has no secrets
Spawned ==
  /\ pc = "onProcess"
  /\ secrets = FALSE
  /\ stdin = "open"
  /\ handles = <<>>
  /\ pos = 0
  /\ errPos = 0
  /\ stdout = <<>>
  /\ stderr = <<>>
  /\ stdoutTruncated = FALSE
  /\ stderrTruncated = FALSE
  /\ parseBuffer = <<>>
  /\ newSessionId = "undefined"
  /\ outputChain = <<>>
  /\ timedOut = FALSE
  /\ hadStreamingOutput = FALSE
  /\ timeout = Off
  /\ killTimers = <<>>
  /\ killed = FALSE
  /\ signals = <<>>
  /\ promise = [settled |-> FALSE, value |-> NoDoc]
  /\ thens = {}
  /\ closed = FALSE
  /\ errored = FALSE
  /\ exitCode = "none"
  /\ logs = 0
  /\ resolveCalls = 0
  /\ idle = 0
  /\ firedBeforeOutput = FALSE

\* runRailwayAgent has spawned the worker
Start ==
  /\ hasOnOutput \in BOOLEAN
  /\ \E in \in Invocations : text = in.text /\ groupTimeout = in.groupTimeout
  /\ proc \in {"running", "failed"}
  /\ Spawned

\* ------------------------------------------------------- prepareWorkspace
\* the directories of the volume that prepareWorkspace creates or tests:
\* groups/<folder>, groups/global, sessions/<folder>/.claude, its skills/<skill>,
\* the three ipc directories, and groups/<folder>/extra
Dirs ==
  {"groupDir", "globalDir", "claudeDir", "skillDst",
   "ipcMessages", "ipcTasks", "ipcInput", "extra"}

\* a file is "absent" or holds a content
NoDisk ==
  [dirs |-> {}, groupMd |-> "absent", globalMd |-> "absent",
   settings |-> "absent", skill |-> "absent"]

NoPaths == [globalDir |-> "undefined", extraDir |-> "undefined"]

\* a volume as it can be: a file or directory lies in an existing directory
Consistent(d) ==
  /\ d.groupMd # "absent" => "groupDir" \in d.dirs
  /\ "extra" \in d.dirs => "groupDir" \in d.dirs
  /\ d.globalMd # "absent" => "globalDir" \in d.dirs
  /\ d.settings # "absent" => "claudeDir" \in d.dirs
  /\ d.skill # "absent" => "skillDst" \in d.dirs
  /\ "skillDst" \in d.dirs => "claudeDir" \in d.dirs

Disks ==
  {d \in [dirs : SUBSET Dirs, groupMd : {"absent", "user"}, globalMd : {"absent", "user"},
          settings : {"absent", "user"}, skill : {"absent", "old"}] : Consistent(d)}

\* the templates and skills of the image, ASSISTANT_NAME and the isMain flag
Images ==
  [tplGroup : {"absent", "andy"}, tplGlobal : {"absent", "andy"},
   skills : {"absent", "v1"}, name : {"Andy", "Bob"}, isMain : BOOLEAN]

\* fs.mkdirSync(dir, {recursive: true})
mkdirSync(d, dir) == [d EXCEPT !.dirs = @ \cup {dir}]

\* the two content.replace calls on a template
substitute(content, name) ==
  IF name # "Andy" /\ content = "andy" THEN "renamed" ELSE content

\* the template sync as it would be without the test for an existing target
syncTemplate_overwrite(d, dir, target, template, name) ==
  IF template # "absent"
    THEN LET content == substitute(template, name)
         IN  IF target = "groupMd"
               THEN [mkdirSync(d, dir) EXCEPT !.groupMd = content]
               ELSE [mkdirSync(d, dir) EXCEPT !.globalMd = content]
    ELSE d

\* one round of the loop over [group.folder, 'global']
syncTemplate(d, dir, target, template, name) ==
  IF d[target] = "absent" /\ template # "absent"
    THEN LET content == substitute(template, name)
         IN  IF target = "groupMd"
               THEN [mkdirSync(d, dir) EXCEPT !.groupMd = content]
               ELSE [mkdirSync(d, dir) EXCEPT !.globalMd = content]
    ELSE d

\* the default settings document is written when there is no settings.json
writeSettings(d) == IF d.settings = "absent" THEN [d EXCEPT !.settings = "default"] ELSE d

\* fs.cpSync(srcDir, dstDir, {recursive: true}) for the skills of the image
syncSkills(d, skills) ==
  IF skills # "absent"
    THEN [mkdirSync(mkdirSync(d, "claudeDir"), "skillDst") EXCEPT !.skill = skills]
    ELSE d

prepareWorkspace(d, im) ==
  LET d1 == mkdirSync(d, "groupDir")
      d2 == syncTemplate(d1, "groupDir", "groupMd", im.tplGroup, im.name)
      d3 == syncTemplate(d2, "globalDir", "globalMd", im.tplGlobal, im.name)
      globalDir == IF ~im.isMain /\ "globalDir" \in d3.dirs THEN "globalDir" ELSE "undefined"
      d4 == writeSettings(mkdirSync(d3, "claudeDir"))
      d5 == syncSkills(d4, im.skills)
      d6 == mkdirSync(mkdirSync(mkdirSync(d5, "ipcMessages"), "ipcTasks"), "ipcInput")
      extraDir == IF "extra" \in d6.dirs THEN "extra" ELSE "undefined"
  IN  [disk |-> d6, paths |-> [globalDir |-> globalDir, extraDir |-> extraDir]]

\* how often prepareWorkspace is called in a row
MaxCalls == 2

WorkspaceInit ==
  /\ disk \in Disks
  /\ image \in Images
  /\ calls = 0
  /\ paths = NoPaths
  /\ once = [disk |-> NoDisk, paths |-> NoPaths]

Prepare ==
  /\ calls < MaxCalls
  /\ LET r == prepareWorkspace(disk, image)
     IN  /\ disk' = r.disk
         /\ paths' = r.paths
         /\ once' = IF calls = 0 THEN r ELSE once
  /\ calls' = calls + 1
  /\ UNCHANGED <<image, capture, outcome, policy, armed, rearms, startup, invocation>>

Init ==
  /\ Start
  /\ capture = <<>>
  /\ outcome = NoDoc
  /\ disk = prepareWorkspace(NoDisk, [tplGroup |-> "absent", tplGlobal |-> "absent",
                                       skills |-> "absent", name |-> "Andy",
                                       isMain |-> TRUE]).disk
  /\ image = [tplGroup |-> "absent", tplGlobal |-> "absent", skills |-> "absent",
              name |-> "Andy", isMain |-> TRUE]
  /\ calls = 1
  /\ paths = NoPaths
  /\ once = [disk |-> disk, paths |-> NoPaths]
  /\ TimerIdle

\* ------------------------------------------------------------ the promise
\* resolve as it would be if a later call replaced the settled value
resolve_overwrite(p, v) == [settled |-> TRUE, value |-> v]

\* resolve of the returned promise: the first call settles it, later calls
\* have no effect
resolve(p, v) == IF p.settled THEN p ELSE [settled |-> TRUE, value |-> v]

\* the message as it would be if it named the effective timeout
TimeoutMsg_effective(ms) == <<"Railway agent timed out after ", ToString(timeoutMs), "ms">>

TimeoutMsg(ms) == <<"Railway agent timed out after ", ToString(ms), "ms">>

\* the tail as it would be with slice(0, 200)
StderrTail_head(s) == SubSeq(s, 1, Min(TailLen, Len(s)))

\* stderr.slice(-200)
StderrTail(s) == IF Len(s) <= TailLen THEN s ELSE SubSeq(s, Len(s) - TailLen + 1, Len(s))

ExitMsg(code, err) == <<"Railway agent exited with code ", code, ": ">> \o StderrTail(err)

SpawnMsg(m) == <<"Railway agent spawn error: ", m>>

\* the message as it would be without the exception's message
ParseFailMsg_bare(m) == <<"Failed to parse output: ">>

ParseFailMsg(m) == <<"Failed to parse output: ", m>>

ErrorOutput(msg) ==
  [status |-> "error", result |-> "null", newSessionId |-> "undefined", error |-> msg]

\* the result as it would be if it carried no session id
SuccessOutput_anonymous(sid) ==
  [status |-> "success", result |-> "null", newSessionId |-> "undefined", error |-> <<>>]

SuccessOutput(sid) ==
  [status |-> "success", result |-> "null", newSessionId |-> sid, error |-> <<>>]

\* --------------------------------------------------------- the output chain
\* outputChain[k] is the promise made by the k-th outputChain.then(...);
\* link 0 is Promise.resolve().  st: "pending" (onOutput not yet called),
\* "running" (onOutput called, its promise pending), "ok", "failed"
\* (onOutput threw or rejected), "skipped" (rejected by the link before it,
\* onOutput never called).
\* The state of a link as it would be if the link were fulfilled as soon as
\* onOutput is called, without waiting for the promise it returns:
LinkState_eager(k) ==
  IF k = 0 THEN "fulfilled"
  ELSE IF outputChain[k].st \in {"ok", "running"} THEN "fulfilled"
  ELSE IF outputChain[k].st \in {"failed", "skipped"} THEN "rejected"
  ELSE "pending"

\* the state of the promise outputChain[k]
LinkState(k) ==
  IF k = 0 THEN "fulfilled"
  ELSE IF outputChain[k].st = "ok" THEN "fulfilled"
  ELSE IF outputChain[k].st \in {"failed", "skipped"} THEN "rejected"
  ELSE "pending"

\* the reaction as it would be if onOutput were called without chaining
CanStart_unchained(k) == outputChain[k].st = "pending"

\* the reaction of link k may call onOutput
CanStart(k) == outputChain[k].st = "pending" /\ LinkState(k - 1) = "fulfilled"

\* a promise reaction is queued: it runs before the next event is handled
MicrotaskPending ==
  \/ \E k \in 1..Len(outputChain) :
       outputChain[k].st = "pending" /\ LinkState(k - 1) # "pending"
  \/ \E k \in thens : LinkState(k) # "pending"

\* an event can be handled: the executor has returned and no reaction is queued
Ready == pc = "run" /\ ~MicrotaskPending

\* ----------------------------------------------------- the promise executor
\* onProcess(child, processName)
\* the executor as it would be without the call
onProcess_never(h) == h

\* the call onProcess(child, processName)
onProcess(h) == Append(h, [child |-> "child", name |-> "processName"])

OnProcess ==
  /\ pc = "onProcess"
  /\ handles' = onProcess(handles)
  /\ pc' = "secrets"
  /\ UNCHANGED <<secrets, stdin, invocation, pure>>

\* readSecrets(): the field is set, whatever it holds
readSecrets == TRUE

\* input.secrets = readSecrets()
SetSecrets ==
  /\ pc = "secrets"
  /\ secrets' = readSecrets
  /\ pc' = "write"
  /\ UNCHANGED <<stdin, handles, invocation, pure>>

\* JSON.stringify(input)
stringify(withSecrets) == IF withSecrets THEN "input+secrets" ELSE "input"

\* child.stdin.write(JSON.stringify(input)); child.stdin.end()
WriteStdin ==
  /\ pc = "write"
  /\ stdin' = stringify(secrets)
  /\ pc' = "delete"
  /\ UNCHANGED <<secrets, handles, invocation, pure>>

\* the statement as it would be if it left the field in place
deleteSecrets_keep(present) == present

\* delete input.secrets
deleteSecrets(present) == FALSE

DeleteSecrets ==
  /\ pc = "delete"
  /\ secrets' = deleteSecrets(secrets)
  /\ pc' = "register"
  /\ UNCHANGED <<stdin, handles, invocation, pure>>

\* the rest of the executor: the timer is armed and the handlers registered
Register ==
  /\ pc = "register"
  /\ timeout' = timeoutMs
  /\ pc' = "run"
  /\ UNCHANGED <<secrets, stdin, handles, pure, hasOnOutput, groupTimeout, text, pos, errPos,
                 proc, stdout, stderr, stdoutTruncated, stderrTruncated, parseBuffer,
                 newSessionId, outputChain, timedOut, hadStreamingOutput, killTimers,
                 killed, signals, promise, thens, closed, errored, exitCode, logs,
                 resolveCalls, idle, firedBeforeOutput>>

\* ------------------------------------------------------------------ timers
\* resetTimeout as it would be if it left the running timer alone
resetTimeout_keep(t) == t

\* resetTimeout: clearTimeout and setTimeout(killOnTimeout, timeoutMs)
resetTimeout(t) == timeoutMs

\* ------------------------------------------------------- stdout 'data' event
\* the capture as it would be if the overflowing chunk were appended whole
appendStdout_whole(buf, truncated, chunk) ==
  IF truncated THEN [buf |-> buf, truncated |-> TRUE]
  ELSE [buf |-> buf \o chunk,
        truncated |-> Len(chunk) > CONTAINER_MAX_OUTPUT_SIZE - Len(buf)]

appendStdout(buf, truncated, chunk) ==
  IF truncated THEN [buf |-> buf, truncated |-> TRUE]
  ELSE LET remaining == CONTAINER_MAX_OUTPUT_SIZE - Len(buf)
       IN  IF Len(chunk) > remaining
             THEN [buf |-> buf \o slice(chunk, 0, remaining), truncated |-> TRUE]
             ELSE [buf |-> buf \o chunk, truncated |-> FALSE]

\* the search as it would be if the end of the buffer counted as an end marker
FindEnd_eager(buf, startIdx) ==
  IF indexOf(buf, OUTPUT_END_MARKER, startIdx) = -1
    THEN Len(buf) ELSE indexOf(buf, OUTPUT_END_MARKER, startIdx)

\* parseBuffer.indexOf(OUTPUT_END_MARKER, startIdx)
FindEnd(buf, startIdx) == indexOf(buf, OUTPUT_END_MARKER, startIdx)

\* parseBuffer.slice(endIdx + OUTPUT_END_MARKER.length)
Consume(buf, endIdx) == sliceFrom(buf, endIdx + Len(OUTPUT_END_MARKER))

\* the try block as it would be if every record replaced the session id
Accept_overwrite(st, parsed) ==
  [st EXCEPT !.sid = parsed.newSessionId,
             !.had = TRUE,
             !.timer = resetTimeout(@),
             !.chain = Append(@, [rec |-> parsed, st |-> "pending"])]

\* one successfully parsed record: the body of the try block
Accept(st, parsed) ==
  [st EXCEPT !.sid = IF parsed.newSessionId # "undefined"
                       THEN parsed.newSessionId ELSE @,
             !.had = TRUE,
             !.timer = resetTimeout(@),
             !.chain = Append(@, [rec |-> parsed, st |-> "pending"])]

\* the catch block as it would be if it dropped what is buffered
Reject_clear(st) == [st EXCEPT !.buf = <<>>]

\* the catch block as it would be if a refused record counted as output
Reject_counted(st) == [st EXCEPT !.had = TRUE, !.timer = resetTimeout(@)]

\* a record that JSON.parse refused: the catch block logs a warning
Reject(st) == st

\* the loop as it would be if it dropped a buffer that holds no start marker
NoStart_drop(st) == [st EXCEPT !.buf = <<>>]

\* no start marker in the buffer: the loop ends and the buffer stays
NoStart(st) == st

RECURSIVE ParseLoop(_)
\* the while loop over parseBuffer; st = [buf, sid, had, timer, chain]
ParseLoop(st) ==
  LET startIdx == indexOf(st.buf, OUTPUT_START_MARKER, 0)
  IN  IF startIdx = -1 THEN NoStart(st)
      ELSE LET endIdx == FindEnd(st.buf, startIdx)
           IN  IF endIdx = -1 THEN st
               ELSE LET jsonStr == trim(slice(st.buf,
                                              startIdx + Len(OUTPUT_START_MARKER),
                                              endIdx))
                        rest == [st EXCEPT !.buf = Consume(st.buf, endIdx)]
                        p == JSONparse(jsonStr)
                    IN  ParseLoop(IF p.ok THEN Accept(rest, p.value) ELSE Reject(rest))

\* the well-formed records of a whole text by one scan over its positions
\* (1-based): the first start marker, the first end marker at or after it
FirstAt(t, m, from) ==
  LET c == {i \in from..(Len(t) - Len(m) + 1) : SubSeq(t, i, i + Len(m) - 1) = m}
  IN  IF c = {} THEN 0 ELSE SetMin(c)

RECURSIVE RefFrom(_, _)
RefFrom(t, from) ==
  LET s == FirstAt(t, S, from)
      e == IF s = 0 THEN 0 ELSE FirstAt(t, E, s)
  IN  IF s = 0 \/ e = 0 THEN <<>>
      ELSE LET p == JSONparse(SubSeq(t, s + Len(S), e - 1))
           IN  (IF p.ok THEN <<p.value>> ELSE <<>>) \o RefFrom(t, e + Len(E))

RefRecords(t) == RefFrom(t, 1)

Delivered == SubSeq(text, 1, pos)

\* the sizes the next chunk of stdout may have
ChunkSizes == {n \in 1..(Len(text) - pos) : n <= MaxChunk \/ pos + n = Len(text)}

\* the body of the stdout 'data' handler for a chunk of n tokens
Receive(n) ==
  /\ LET chunk == SubSeq(text, pos + 1, pos + n)
         cap == appendStdout(stdout, stdoutTruncated, chunk)
         st0 == [buf |-> parseBuffer \o chunk, sid |-> newSessionId,
                 had |-> hadStreamingOutput, timer |-> timeout,
                 chain |-> outputChain]
         st1 == IF hasOnOutput THEN ParseLoop(st0) ELSE [st0 EXCEPT !.buf = parseBuffer]
     IN  /\ stdout' = cap.buf
         /\ stdoutTruncated' = cap.truncated
         /\ parseBuffer' = st1.buf
         /\ newSessionId' = st1.sid
         /\ hadStreamingOutput' = st1.had
         /\ timeout' = st1.timer
         /\ outputChain' = st1.chain
         /\ idle' = IF Len(RefRecords(SubSeq(text, 1, pos + n))) > Len(RefRecords(Delivered))
                      THEN 0 ELSE idle
  /\ pos' = pos + n
  /\ UNCHANGED <<startup, pure, hasOnOutput, groupTimeout, text, errPos, proc, stderr,
                 stderrTruncated, timedOut, killTimers, killed, signals, promise,
                 thens, closed, errored, exitCode, logs, resolveCalls,
                 firedBeforeOutput>>

StdoutData(n) ==
  /\ Ready
  /\ proc # "failed"
  /\ ~closed
  /\ n \in ChunkSizes
  /\ Receive(n)

\* ------------------------------------------------------- stderr 'data' event
appendStderr(buf, truncated, chunk) ==
  IF truncated THEN [buf |-> buf, truncated |-> TRUE]
  ELSE LET remaining == CONTAINER_MAX_OUTPUT_SIZE - Len(buf)
       IN  IF Len(chunk) > remaining
             THEN [buf |-> buf \o slice(chunk, 0, remaining), truncated |-> TRUE]
             ELSE [buf |-> buf \o chunk, truncated |-> FALSE]

\* the handler as it would be if it handed its chunk to the parse buffer
feedStderr_parse(buf, chunk) == buf \o chunk

\* what the stderr handler does to parseBuffer with its chunk: nothing
feedStderr(buf, chunk) == buf

StderrData ==
  /\ Ready
  /\ proc # "failed"
  /\ ~closed
  /\ errPos < CONTAINER_MAX_OUTPUT_SIZE + ErrChunk
  /\ LET chunk == SubSeq(ErrStream(errPos + ErrChunk), errPos + 1, errPos + ErrChunk)
         cap == appendStderr(stderr, stderrTruncated, chunk)
     IN  /\ stderr' = cap.buf
         /\ stderrTruncated' = cap.truncated
         /\ parseBuffer' = feedStderr(parseBuffer, chunk)
  /\ errPos' = errPos + ErrChunk
  /\ UNCHANGED <<startup, pure, hasOnOutput, groupTimeout, text, pos, proc, stdout,
                 stdoutTruncated, newSessionId, outputChain, timedOut,
                 hadStreamingOutput, timeout, killTimers, killed, signals, promise,
                 thens, closed, errored, exitCode, logs, resolveCalls, idle,
                 firedBeforeOutput>>

\* ------------------------------------------------------------------ signals
\* child.kill(sig): the signal is sent and child.killed set when the child
\* still has its handle; once the exit has been seen kill returns false.
\* Sending a signal to a live child of the same user is taken to succeed.
kill(sig) ==
  IF proc = "running"
    THEN [killed |-> TRUE, signals |-> Append(signals, sig)]
    ELSE [killed |-> killed, signals |-> signals]

\* the timer fires
KillOnTimeout ==
  /\ Ready
  /\ timeout = 0
  /\ timedOut' = TRUE
  /\ LET k == kill("SIGTERM")
     IN  /\ killed' = k.killed
         /\ signals' = k.signals
  /\ killTimers' = Append(killTimers, KillDelay)
  /\ timeout' = Off
  /\ firedBeforeOutput' = IF timedOut THEN firedBeforeOutput ELSE ~hadStreamingOutput
  /\ UNCHANGED <<startup, pure, hasOnOutput, groupTimeout, text, pos, errPos, proc, stdout, stderr,
                 stdoutTruncated, stderrTruncated, parseBuffer, newSessionId,
                 outputChain, hadStreamingOutput, promise, thens, closed, errored,
                 exitCode, logs, resolveCalls, idle>>

\* the callback of the 15000 ms timer set by killOnTimeout
Escalate ==
  /\ Ready
  /\ killTimers # <<>>
  /\ Head(killTimers) = 0
  /\ LET k == IF ~killed THEN kill("SIGKILL")
                         ELSE [killed |-> killed, signals |-> signals]
     IN  /\ killed' = k.killed
         /\ signals' = k.signals
  /\ killTimers' = Tail(killTimers)
  /\ UNCHANGED <<startup, pure, hasOnOutput, groupTimeout, text, pos, errPos, proc, stdout, stderr,
                 stdoutTruncated, stderrTruncated, parseBuffer, newSessionId,
                 outputChain, timedOut, hadStreamingOutput, timeout, promise, thens,
                 closed, errored, exitCode, logs, resolveCalls, idle,
                 firedBeforeOutput>>

\* one tick of time passes: no armed timer is due, and the 'error' of a
\* failed spawn, emitted on the next turn of the event loop, has been handled
Tick ==
  /\ Ready
  /\ proc = "failed" => errored
  /\ timeout # 0
  /\ \A i \in 1..Len(killTimers) : killTimers[i] # 0
  /\ timeout > 0 \/ killTimers # <<>>
  /\ timeout' = IF timeout > 0 THEN timeout - 1 ELSE timeout
  /\ killTimers' = [i \in 1..Len(killTimers) |-> killTimers[i] - 1]
  /\ idle' = IF closed \/ errored THEN idle ELSE Min(idle + 1, timeoutMs)
  /\ UNCHANGED <<startup, pure, hasOnOutput, groupTimeout, text, pos, errPos, proc, stdout, stderr,
                 stdoutTruncated, stderrTruncated, parseBuffer, newSessionId,
                 outputChain, timedOut, hadStreamingOutput, killed, signals, promise,
                 thens, closed, errored, exitCode, logs, resolveCalls,
                 firedBeforeOutput>>

\* the worker process ends (by itself or by a signal) and the exit is seen
WorkerExit ==
  /\ Ready
  /\ proc = "running"
  /\ proc' = "exited"
  /\ UNCHANGED <<startup, pure, hasOnOutput, groupTimeout, text, pos, errPos, stdout, stderr,
                 stdoutTruncated, stderrTruncated, parseBuffer, newSessionId,
                 outputChain, timedOut, hadStreamingOutput, timeout, killTimers,
                 killed, signals, promise, thens, closed, errored, exitCode, logs,
                 resolveCalls, idle, firedBeforeOutput>>

\* ------------------------------------------------------------ 'close' event
\* the handler as it would be if it left the timer running
clearTimeout_keep(t) == t

\* clearTimeout(timeout)
clearTimeout(t) == Off

\* legacy mode: the document the close handler parses out of stdout
LegacyParse(out) ==
  LET startIdx == indexOf(out, OUTPUT_START_MARKER, 0)
      endIdx == indexOf(out, OUTPUT_END_MARKER, 0)
      jsonLine == IF startIdx # -1 /\ endIdx # -1 /\ endIdx > startIdx
                    THEN trim(slice(out, startIdx + Len(OUTPUT_START_MARKER), endIdx))
                    ELSE LastLine(trim(out))
  IN  JSONparse(jsonLine)

LegacyOutput(out) ==
  LET p == LegacyParse(out)
  IN  IF p.ok THEN p.value ELSE ErrorOutput(ParseFailMsg("SyntaxError"))

ExitCodes == {"0", "1", "null"}

\* the close handler as it would be if it wrote no log file
writeLog_skip(n) == n

\* fs.writeFileSync(logFile, ...): one more file in the logs directory
writeLog(n) == n + 1

Close(code) ==
  /\ Ready
  /\ ~closed
  /\ \/ proc = "exited" /\ code \in ExitCodes
     \/ proc = "failed" /\ errored /\ code = "-2"
  /\ closed' = TRUE
  /\ exitCode' = code
  /\ timeout' = clearTimeout(timeout)
  /\ IF timedOut
       THEN IF hadStreamingOutput
              THEN /\ thens' = thens \cup {Len(outputChain)}
                   /\ UNCHANGED <<promise, resolveCalls, logs>>
              ELSE /\ promise' = resolve(promise, ErrorOutput(TimeoutMsg(configTimeout)))
                   /\ resolveCalls' = resolveCalls + 1
                   /\ UNCHANGED <<thens, logs>>
       ELSE /\ logs' = writeLog(logs)
            /\ IF code # "0"
                 THEN /\ promise' = resolve(promise, ErrorOutput(ExitMsg(code, stderr)))
                      /\ resolveCalls' = resolveCalls + 1
                      /\ UNCHANGED thens
                 ELSE IF hasOnOutput
                        THEN /\ thens' = thens \cup {Len(outputChain)}
                             /\ UNCHANGED <<promise, resolveCalls>>
                        ELSE /\ promise' = resolve(promise, LegacyOutput(stdout))
                             /\ resolveCalls' = resolveCalls + 1
                             /\ UNCHANGED thens
  /\ idle' = 0
  /\ UNCHANGED <<startup, pure, hasOnOutput, groupTimeout, text, pos, errPos, proc, stdout, stderr,
                 stdoutTruncated, stderrTruncated, parseBuffer, newSessionId,
                 outputChain, timedOut, hadStreamingOutput, killTimers, killed,
                 signals, errored, firedBeforeOutput>>

\* ------------------------------------------------------------ 'error' event
\* the spawn failed: 'error' is emitted, and 'close' after it
ErrorEvent ==
  /\ Ready
  /\ proc = "failed"
  /\ ~errored
  /\ errored' = TRUE
  /\ timeout' = clearTimeout(timeout)
  /\ promise' = resolve(promise, ErrorOutput(SpawnMsg("ENOENT")))
  /\ resolveCalls' = resolveCalls + 1
  /\ idle' = 0
  /\ UNCHANGED <<startup, pure, hasOnOutput, groupTimeout, text, pos, errPos, proc, stdout, stderr,
                 stdoutTruncated, stderrTruncated, parseBuffer, newSessionId,
                 outputChain, timedOut, hadStreamingOutput, killTimers, killed,
                 signals, thens, closed, exitCode, logs, firedBeforeOutput>>

\* ------------------------------------------------------- promise reactions
\* () => onOutput(parsed) runs: the link before it is fulfilled
CallbackStart(k) ==
  /\ CanStart(k)
  /\ outputChain' = [outputChain EXCEPT ![k].st = "running"]
  /\ UNCHANGED <<startup, pure, hasOnOutput, groupTimeout, text, pos, errPos, proc, stdout, stderr,
                 stdoutTruncated, stderrTruncated, parseBuffer, newSessionId,
                 timedOut, hadStreamingOutput, timeout, killTimers, killed, signals,
                 promise, thens, closed, errored, exitCode, logs, resolveCalls, idle,
                 firedBeforeOutput>>

\* the link before it is rejected: the rejection passes on, onOutput is not called
ChainSkip(k) ==
  /\ outputChain[k].st = "pending"
  /\ LinkState(k - 1) = "rejected"
  /\ outputChain' = [outputChain EXCEPT ![k].st = "skipped"]
  /\ UNCHANGED <<startup, pure, hasOnOutput, groupTimeout, text, pos, errPos, proc, stdout, stderr,
                 stdoutTruncated, stderrTruncated, parseBuffer, newSessionId,
                 timedOut, hadStreamingOutput, timeout, killTimers, killed, signals,
                 promise, thens, closed, errored, exitCode, logs, resolveCalls, idle,
                 firedBeforeOutput>>

\* the promise onOutput returned is fulfilled
CallbackDone(k) ==
  /\ Ready
  /\ outputChain[k].st = "running"
  /\ outputChain' = [outputChain EXCEPT ![k].st = "ok"]
  /\ UNCHANGED <<startup, pure, hasOnOutput, groupTimeout, text, pos, errPos, proc, stdout, stderr,
                 stdoutTruncated, stderrTruncated, parseBuffer, newSessionId,
                 timedOut, hadStreamingOutput, timeout, killTimers, killed, signals,
                 promise, thens, closed, errored, exitCode, logs, resolveCalls, idle,
                 firedBeforeOutput>>

\* the promise onOutput returned is rejected
CallbackFail(k) ==
  /\ Ready
  /\ outputChain[k].st = "running"
  /\ outputChain' = [outputChain EXCEPT ![k].st = "failed"]
  /\ UNCHANGED <<startup, pure, hasOnOutput, groupTimeout, text, pos, errPos, proc, stdout, stderr,
                 stdoutTruncated, stderrTruncated, parseBuffer, newSessionId,
                 timedOut, hadStreamingOutput, timeout, killTimers, killed, signals,
                 promise, thens, closed, errored, exitCode, logs, resolveCalls, idle,
                 firedBeforeOutput>>

\* outputChain.then(() => resolve({status: 'success', ...})) runs
ThenResolve(k) ==
  /\ k \in thens
  /\ LinkState(k) = "fulfilled"
  /\ thens' = thens \ {k}
  /\ promise' = resolve(promise, SuccessOutput(newSessionId))
  /\ resolveCalls' = resolveCalls + 1
  /\ UNCHANGED <<startup, pure, hasOnOutput, groupTimeout, text, pos, errPos, proc, stdout, stderr,
                 stdoutTruncated, stderrTruncated, parseBuffer, newSessionId,
                 outputChain, timedOut, hadStreamingOutput, timeout, killTimers,
                 killed, signals, closed, errored, exitCode, logs, idle,
                 firedBeforeOutput>>

\* the link it was attached to is rejected: the reaction never runs
ThenDrop(k) ==
  /\ k \in thens
  /\ LinkState(k) = "rejected"
  /\ thens' = thens \ {k}
  /\ UNCHANGED <<startup, pure, hasOnOutput, groupTimeout, text, pos, errPos, proc, stdout, stderr,
                 stdoutTruncated, stderrTruncated, parseBuffer, newSessionId,
                 outputChain, timedOut, hadStreamingOutput, timeout, killTimers,
                 killed, signals, promise, closed, errored, exitCode, logs,
                 resolveCalls, idle, firedBeforeOutput>>

Links == 1..Len(outputChain)

Next ==
  \/ OnProcess
  \/ SetSecrets
  \/ WriteStdin
  \/ DeleteSecrets
  \/ Register
  \/ \E n \in ChunkSizes : StdoutData(n)
  \/ StderrData
  \/ KillOnTimeout
  \/ Escalate
  \/ Tick
  \/ WorkerExit
  \/ \E code \in ExitCodes \cup {"-2"} : Close(code)
  \/ ErrorEvent
  \/ \E k \in Links : CallbackStart(k)
  \/ \E k \in Links : ChainSkip(k)
  \/ \E k \in Links : CallbackDone(k)
  \/ \E k \in Links : CallbackFail(k)
  \/ \E k \in thens : ThenResolve(k)
  \/ \E k \in thens : ThenDrop(k)

Spec == Init /\ [][Next]_vars

\* ------------------------------------------- the legacy parse on its own
\* pieces a worker's stdout is made of
StdoutParts ==
  { <<>>, <<"x">>, <<"\n">>, Frame("s1"), Frame("ok"), S \o <<"x">> \o E, E, J("s2") }

\* the stdout a worker may have written by the time it exits
LegacyStdouts == {a \o b \o c : a, b, c \in StdoutParts}

LegacyInit ==
  /\ Start
  /\ ~hasOnOutput
  /\ proc = "running"
  /\ groupTimeout = 0
  /\ text = Frame("s1") \o Frame("s2")
  /\ capture \in LegacyStdouts
  /\ outcome = NoDoc
  /\ disk = NoDisk
  /\ image \in {im \in Images : im.isMain /\ im.name = "Andy" /\ im.skills = "absent"
                                  /\ im.tplGroup = "absent" /\ im.tplGlobal = "absent"}
  /\ calls = 0
  /\ paths = NoPaths
  /\ once = [disk |-> NoDisk, paths |-> NoPaths]
  /\ TimerIdle

\* the legacy branch of the 'close' handler, applied to capture
LegacyClose ==
  /\ outcome = NoDoc
  /\ outcome' = LegacyOutput(capture)
  /\ UNCHANGED <<capture, disk, image, calls, paths, once, policy, armed, rearms,
                 startup, invocation>>

LegacyNext == LegacyClose

LegacySpec == LegacyInit /\ [][LegacyNext]_vars

\* ------------------------------------------ the streaming codec on its own
\* the functions checked on their own are not in use
PureIdle ==
  /\ TimerIdle
  /\ capture = <<>>
  /\ outcome = NoDoc
  /\ disk = NoDisk
  /\ image = [tplGroup |-> "absent", tplGlobal |-> "absent", skills |-> "absent",
              name |-> "Andy", isMain |-> TRUE]
  /\ calls = 0
  /\ paths = NoPaths
  /\ once = [disk |-> NoDisk, paths |-> NoPaths]

\* a streaming invocation whose worker writes any text made of the parts
CodecInit ==
  /\ hasOnOutput = TRUE
  /\ text \in LegacyStdouts
  /\ groupTimeout = 0
  /\ proc = "running"
  /\ Spawned
  /\ PureIdle

\* a stdout 'data' event with a chunk of any size
Feed(n) ==
  /\ pc = "run"
  /\ n \in 1..(Len(text) - pos)
  /\ Receive(n)

CodecNext ==
  \/ OnProcess
  \/ SetSecrets
  \/ WriteStdin
  \/ DeleteSecrets
  \/ Register
  \/ \E n \in 1..(Len(text) - pos) : Feed(n)

CodecSpec == CodecInit /\ [][CodecNext]_vars

\* ------------------------------------------ the timeout policy on its own
TimeoutInit ==
  /\ hasOnOutput = FALSE
  /\ text = Frame("s1") \o Frame("s2")
  /\ groupTimeout = 0
  /\ proc = "running"
  /\ Spawned
  /\ capture = <<>>
  /\ outcome = NoDoc
  /\ disk = NoDisk
  /\ image = [tplGroup |-> "absent", tplGlobal |-> "absent", skills |-> "absent",
              name |-> "Andy", isMain |-> TRUE]
  /\ calls = 0
  /\ paths = NoPaths
  /\ once = [disk |-> NoDisk, paths |-> NoPaths]
  /\ policy \in Policies
  /\ armed = Off
  /\ rearms = 0

TimeoutNext == ArmTimeout \/ ResetTimeout

TimeoutSpec == TimeoutInit /\ [][TimeoutNext]_vars

\* --------------------------------------------- prepareWorkspace on its own
WorkspaceStart ==
  /\ Start
  /\ ~hasOnOutput
  /\ proc = "running"
  /\ groupTimeout = 0
  /\ text = Frame("s1") \o Frame("s2")
  /\ capture = <<>>
  /\ outcome = NoDoc
  /\ TimerIdle
  /\ WorkspaceInit

WorkspaceNext == Prepare

WorkspaceSpec == WorkspaceStart /\ [][WorkspaceNext]_vars

\* the event loop runs what is queued, time passes, and a callback that was
\* called ends one way or the other; the worker itself owes nothing
Fairness ==
  /\ WF_vars(OnProcess \/ SetSecrets \/ WriteStdin \/ DeleteSecrets \/ Register)
  /\ WF_vars(\E k \in Links : CallbackStart(k))
  /\ WF_vars(\E k \in Links : ChainSkip(k))
  /\ WF_vars(\E k \in Links : CallbackDone(k) \/ CallbackFail(k))
  /\ WF_vars(\E k \in thens : ThenResolve(k))
  /\ WF_vars(\E k \in thens : ThenDrop(k))
  /\ WF_vars(KillOnTimeout)
  /\ WF_vars(Escalate)
  /\ WF_vars(Tick)
  /\ WF_vars(ErrorEvent)
  /\ WF_vars(\E code \in ExitCodes \cup {"-2"} : Close(code))

FairSpec == Spec /\ Fairness

TypeOK ==
  /\ pc \in {"onProcess", "secrets", "write", "delete", "register", "run"}
  /\ secrets \in BOOLEAN
  /\ stdin \in {"open", "input", "input+secrets"}
  /\ Len(handles) <= 1
  /\ hasOnOutput \in BOOLEAN
  /\ groupTimeout \in GroupTimeouts
  /\ text \in Texts
  /\ pos \in 0..Len(text)
  /\ errPos \in Nat
  /\ proc \in {"failed", "running", "exited"}
  /\ Len(stdout) <= CONTAINER_MAX_OUTPUT_SIZE
  /\ Len(stderr) <= CONTAINER_MAX_OUTPUT_SIZE
  /\ stdoutTruncated \in BOOLEAN
  /\ stderrTruncated \in BOOLEAN
  /\ newSessionId \in {"undefined", "s1", "s2"}
  /\ \A k \in Links : outputChain[k].st \in {"pending", "running", "ok", "failed", "skipped"}
  /\ timedOut \in BOOLEAN
  /\ hadStreamingOutput \in BOOLEAN
  /\ timeout \in Off..timeoutMs
  /\ \A i \in 1..Len(killTimers) : killTimers[i] \in 0..KillDelay
  /\ killed \in BOOLEAN
  /\ promise.settled \in BOOLEAN
  /\ thens \subseteq 0..Len(outputChain)
  /\ closed \in BOOLEAN
  /\ errored \in BOOLEAN
  /\ exitCode \in ExitCodes \cup {"-2", "none"}
  /\ logs \in 0..1
  /\ resolveCalls \in 0..2
  /\ idle \in 0..timeoutMs
  /\ firedBeforeOutput \in BOOLEAN

\* ================================================================== claims
ChainRecs == [k \in Links |-> outputChain[k].rec]

Started(k) == outputChain[k].st \in {"running", "ok", "failed"}

Completed(k) == outputChain[k].st \in {"ok", "failed"}

Take(s, n) == SubSeq(s, 1, IF n < Len(s) THEN n ELSE Len(s))

IsPrefix(a, b) == Len(a) <= Len(b) /\ a = SubSeq(b, 1, Len(a))

\* the session id of the last record that carries one
RECURSIVE LastSid(_)
LastSid(recs) ==
  IF recs = <<>> THEN "undefined"
  ELSE IF recs[Len(recs)].newSessionId # "undefined" THEN recs[Len(recs)].newSessionId
  ELSE LastSid(SubSeq(recs, 1, Len(recs) - 1))

\* the last n tokens of s
LastN(s, n) == IF Len(s) <= n THEN s ELSE [i \in 1..n |-> s[Len(s) - n + i]]

\* the step is the firing of the timeout timer
TimerFires == Len(killTimers') > Len(killTimers)

\* the step is the firing of an escalation timer
EscalationFires == Len(killTimers') < Len(killTimers)

\* the step completes a well-formed record on stdout
RecordAppears == Len(RefRecords(SubSeq(text, 1, pos'))) > Len(RefRecords(Delivered))

\* C1: once the returned promise has settled, no later event (a close after
\* an error, a late timer, a late reaction of the output chain) settles it
\* again or changes its value: one invocation produces at most one result.
C1_SettlesAtMostOnce == [][promise.settled => promise' = promise]_vars

\* resolve has been called on an already settled promise
C1_Witness == promise.settled /\ resolveCalls >= 2

\* C2: under fair scheduling, once the close or the error event has been
\* handled the returned promise is eventually settled, whether the streaming
\* callbacks end normally or fail.
C2_EventuallySettles == (closed \/ errored) ~> promise.settled

\* C3: onOutput of a record is not called before onOutput of every record
\* parsed earlier has completed, and at most one call is in flight.
C3_CallbacksInOrder ==
  /\ \A i, j \in Links : (i < j /\ Started(j)) => Completed(i)
  /\ Cardinality({k \in Links : outputChain[k].st = "running"}) <= 1

\* the second callback runs after the first has completed
C3_Witness ==
  /\ Len(outputChain) = 2
  /\ outputChain[1].st = "ok"
  /\ outputChain[2].st = "running"

\* C4: in streaming mode the records parsed so far are exactly the
\* well-formed records whose end marker has arrived, each once, in order and
\* with the content of the unsplit record, however the text was split into
\* chunks; a record whose end marker has not arrived is not among them.
C4_ParsedWhenComplete == hasOnOutput => ChainRecs = RefRecords(Delivered)

\* a record whose frame is longer than two chunks, so that it arrived in
\* three chunks or more, has been parsed (no chunk so far was the whole rest)
C4_Witness ==
  /\ hasOnOutput
  /\ pos < Len(text)
  /\ Len(outputChain) = 1
  /\ LET s == FirstAt(Delivered, S, 1)
         e == FirstAt(Delivered, E, s)
     IN  s > 0 /\ e > 0 /\ (e + Len(E)) - s > 2 * MaxChunk

\* C5: each captured buffer is the first CONTAINER_MAX_OUTPUT_SIZE tokens of
\* what its stream delivered, so it never exceeds the cap and does not change
\* once the cap is passed; the truncation flag is set exactly when a chunk
\* overflowed the cap; the records of the captured part stay parsed.
C5_BuffersCapped ==
  /\ stdout = Take(Delivered, CONTAINER_MAX_OUTPUT_SIZE)
  /\ stdoutTruncated <=> Len(Delivered) > CONTAINER_MAX_OUTPUT_SIZE
  /\ stderr = Take(ErrStream(errPos), CONTAINER_MAX_OUTPUT_SIZE)
  /\ stderrTruncated <=> errPos > CONTAINER_MAX_OUTPUT_SIZE
  /\ hasOnOutput => IsPrefix(RefRecords(stdout), ChainRecs)

\* both streams were truncated, chunks arrived after the truncation, and a
\* record had been parsed
C5_Witness ==
  /\ stdoutTruncated
  /\ stderrTruncated
  /\ Len(outputChain) >= 1
  /\ errPos >= CONTAINER_MAX_OUTPUT_SIZE + ErrChunk
  /\ pos = Len(text)

\* C6: when the timeout fired and a record was streamed, the settled result
\* is success with a null payload and the session id of the last record that
\* carried one, and every chained callback has completed by then.
C6_TimeoutAfterOutput ==
  (closed /\ timedOut /\ hadStreamingOutput /\ promise.settled) =>
    /\ promise.value = SuccessOutput(LastSid(ChainRecs))
    /\ \A k \in Links : Completed(k)

\* resolved after a timeout with two records, the last one without session id
C6_Witness ==
  /\ closed /\ timedOut /\ hadStreamingOutput /\ promise.settled
  /\ Len(outputChain) = 2
  /\ outputChain[2].rec.newSessionId = "undefined"
  /\ promise.value.newSessionId = "s2"

\* C7 as stated: when the timeout first fired with no record streamed, the
\* result is the timeout error, whatever the worker emits afterwards.
C7_Original ==
  (firedBeforeOutput /\ promise.settled) =>
    promise.value = ErrorOutput(<<"Railway agent timed out after ",
                                  ToString(configTimeout), "ms">>)

\* C7: when the timeout fired and no record has been streamed by the time the
\* close event is handled, the invocation is resolved with the error that
\* names the configured timeout (the group override or the global default).
C7_TimeoutWithoutOutput ==
  (closed /\ timedOut /\ ~hadStreamingOutput) =>
    /\ promise.settled
    /\ promise.value = ErrorOutput(<<"Railway agent timed out after ",
                                     ToString(configTimeout), "ms">>)

\* timed out with no override, after the worker had written to stdout
C7_Witness ==
  /\ closed /\ timedOut /\ ~hadStreamingOutput
  /\ groupTimeout = 0
  /\ pos > 0

\* C8 as stated: with or without a streaming callback, a complete record on
\* stdout re-arms the timer to the full timeout, and the timer fires only
\* after timeoutMs ticks without a record.
C8_Original ==
  [][/\ RecordAppears => timeout' = timeoutMs
     /\ TimerFires => idle >= timeoutMs]_vars

\* C8: when a streaming callback was supplied, a complete record on stdout
\* re-arms the timer to the full timeout, and the timer fires only after
\* timeoutMs ticks without a record.
C8_RearmedWhenStreaming ==
  [][hasOnOutput =>
       /\ RecordAppears => timeout' = timeoutMs
       /\ TimerFires => idle >= timeoutMs]_vars

\* the timer fired although records had been streamed: it had been re-armed
C8_Witness == hasOnOutput /\ timedOut /\ ~firedBeforeOutput /\ ~closed

\* C9: when an escalation timer fires and the worker has not exited, SIGKILL
\* is sent to it.
C9_Escalation ==
  [][(EscalationFires /\ proc = "running") =>
       signals' = Append(signals, "SIGKILL")]_vars

\* C10: when a spawned worker closes with a non-zero exit code and no timeout
\* fired, the invocation is resolved with the error that names the code and
\* the tail of stderr, however many records were streamed; with code 1 and
\* nothing on stderr the message ends with the code and an empty tail.
C10_NonZeroExit ==
  (closed /\ proc = "exited" /\ ~timedOut /\ exitCode # "0") =>
    /\ promise.settled
    /\ promise.value = ErrorOutput(<<"Railway agent exited with code ", exitCode, ": ">>
                                   \o LastN(stderr, TailLen))
    /\ (exitCode = "1" /\ stderr = <<>>) =>
         promise.value.error = <<"Railway agent exited with code ", "1", ": ">>

\* closed with code 1 after a record was streamed and stderr outgrew the tail
C10_Witness ==
  /\ closed /\ proc = "exited" /\ ~timedOut /\ exitCode = "1"
  /\ Len(outputChain) >= 1
  /\ Len(stderr) > TailLen

\* C11: when a spawned worker closes with code 0, no timeout fired and a
\* streaming callback was supplied, the result is settled only after the close
\* and only when every chained callback has ended normally; it is success with
\* a null payload and the session id of the last record that carried one
\* (undefined when no record did).
C11_StreamingExitZero ==
  /\ (hasOnOutput /\ proc # "failed" /\ ~closed) => ~promise.settled
  /\ (hasOnOutput /\ closed /\ proc = "exited" /\ ~timedOut /\ exitCode = "0"
        /\ promise.settled) =>
       /\ promise.value = [status |-> "success", result |-> "null",
                           newSessionId |-> LastSid(ChainRecs), error |-> <<>>]
       /\ \A k \in Links : outputChain[k].st = "ok"

\* exit 0 without timeout: settled after two callbacks, the first record with
\* a session id and the last one without
C11_Witness ==
  /\ hasOnOutput /\ closed /\ ~timedOut /\ exitCode = "0" /\ promise.settled
  /\ Len(outputChain) = 2
  /\ outputChain[2].rec.newSessionId = "undefined"
  /\ promise.value.newSessionId = "s2"

\* exit 0 without timeout: settled with an undefined session id, no record
\* having carried one
C11_WitnessNoSid ==
  /\ hasOnOutput /\ closed /\ ~timedOut /\ exitCode = "0" /\ promise.settled
  /\ Len(outputChain) = 1
  /\ promise.value.newSessionId = "undefined"

\* the bodies of the complete records of a text, well-formed or not
RECURSIVE RefBodiesFrom(_, _)
RefBodiesFrom(t, from) ==
  LET s == FirstAt(t, S, from)
      e == IF s = 0 THEN 0 ELSE FirstAt(t, E, s)
  IN  IF s = 0 \/ e = 0 THEN <<>>
      ELSE <<SubSeq(t, s + Len(S), e - 1)>> \o RefBodiesFrom(t, e + Len(E))

RefBodies(t) == RefBodiesFrom(t, 1)

\* the last line of a text that holds more than white space
LastNonEmptyLine(t) ==
  LET ends == {i \in 1..Len(t) : ~IsWs(t[i])}
  IN  IF ends = {} THEN <<>>
      ELSE LET e == SetMax(ends)
               nl == {i \in 1..e : t[i] = "\n"}
           IN  SubSeq(t, IF nl = {} THEN 1 ELSE SetMax(nl) + 1, e)

\* C12: in legacy mode the result is the parse of the last complete record
\* of the captured stdout, whatever stands around it and however many records
\* there are; without a complete record it is the parse of the last non-empty
\* line; a single record {"status":"success","result":"ok"} gives that record.
C12_LegacyLastRecord ==
  outcome # NoDoc =>
    LET bodies == RefBodies(capture)
        chosen == IF bodies # <<>> THEN bodies[Len(bodies)]
                                   ELSE LastNonEmptyLine(capture)
    IN  /\ JSONparse(chosen).ok => outcome = JSONparse(chosen).value
        /\ capture = Frame("ok") =>
             outcome.status = "success" /\ outcome.result = "ok"

\* C13: in streaming mode a complete record that is not JSON is dropped: no
\* callback is chained for it, its span leaves the parse buffer, the
\* well-formed records after it are chained all the same, and it does not turn
\* the result of a worker that exits with code 0 into an error.
C13_MalformedSkipped ==
  hasOnOutput =>
    LET bodies == RefBodies(Delivered)
    IN  /\ Len(outputChain) = Cardinality({i \in 1..Len(bodies) : JSONparse(bodies[i]).ok})
        /\ \A k \in Links : outputChain[k].rec.status # "none"
        /\ RefBodies(parseBuffer) = <<>>
        /\ (promise.settled /\ proc = "exited" /\ ~timedOut /\ exitCode = "0") =>
             promise.value.status = "success"

\* a malformed record came first, the record after it was parsed and
\* delivered, and the invocation resolved as success
C13_Witness ==
  /\ hasOnOutput
  /\ pos = Len(text)
  /\ Len(RefBodies(text)) = 2
  /\ ~JSONparse(RefBodies(text)[1]).ok
  /\ Len(outputChain) = 1
  /\ outputChain[1].st = "ok"
  /\ promise.settled /\ promise.value.status = "success"

\* C14: the input object has a secrets field only between the statement that
\* sets it and the statement that deletes it, around the one write to stdin:
\* not when onProcess runs, and not once any stdout, stderr, close, error or
\* timer event has been handled, a log file written or the result settled;
\* what was written to stdin carried the secrets.
C14_SecretsOnlyWhileWritten ==
  /\ secrets => pc \in {"write", "delete"}
  /\ pc \in {"register", "run"} => stdin = "input+secrets"
  /\ (pos > 0 \/ errPos > 0 \/ closed \/ errored \/ timedOut \/ logs > 0
        \/ promise.settled) => ~secrets

\* the secrets went to stdin, and the invocation has written its log and
\* resolved with the field gone
C14_Witness ==
  /\ stdin = "input+secrets"
  /\ ~secrets
  /\ logs > 0
  /\ promise.settled

\* C15: when the spawn fails, the invocation is resolved with the error that
\* carries the spawn failure message and no log file is written, also when the
\* close event follows the error event.
C15_SpawnFailure ==
  proc = "failed" =>
    /\ logs = 0
    /\ errored =>
         /\ promise.settled
         /\ promise.value = ErrorOutput(<<"Railway agent spawn error: ", "ENOENT">>)

\* C16 as stated: an invocation whose worker has closed has written exactly
\* one log file, however it ended.
C16_Original == (closed /\ proc = "exited") => logs = 1

\* C16: an invocation whose worker has closed has written exactly one log
\* file when the timeout had not fired and none when it had; nothing is
\* written before the close, and when the timeout had not fired the file is
\* there by the time the result is settled.
C16_LogUnlessTimedOut ==
  proc = "exited" =>
    /\ closed => logs = (IF timedOut THEN 0 ELSE 1)
    /\ ~closed => logs = 0
    /\ (promise.settled /\ ~timedOut) => logs = 1

\* the log file of a worker that exited with code 0 is written while the
\* result still waits for a callback
C16_Witness ==
  /\ closed /\ proc = "exited" /\ ~timedOut /\ exitCode = "0"
  /\ logs = 1
  /\ ~promise.settled
  /\ \E k \in Links : outputChain[k].st = "running"

\* C17: a second call of prepareWorkspace for the same group and flag leaves
\* the volume as the first call left it and returns the same paths; no call
\* changes a settings.json or a CLAUDE.md (of the group or global) that was
\* there before it, whatever it holds.
C17_PrepareIdempotent ==
  [][/\ calls' = MaxCalls => (disk' = once.disk /\ paths' = once.paths)
     /\ disk.settings # "absent" => disk'.settings = disk.settings
     /\ disk.groupMd # "absent" => disk'.groupMd = disk.groupMd
     /\ disk.globalMd # "absent" => disk'.globalMd = disk.globalMd]_vars

\* called twice on a volume with a settings.json and a CLAUDE.md of the user,
\* with templates and skills in the image and no global directory at first
C17_Witness ==
  /\ calls = MaxCalls
  /\ disk.settings = "user"
  /\ disk.groupMd = "user"
  /\ disk.globalMd = "renamed"
  /\ disk.skill = "v1"
  /\ image.tplGroup = "andy"
  /\ paths.globalDir = "globalDir"

\* C18: in streaming mode the parse buffer never holds more than the stdout
\* cap: once stdout is truncated what arrives is not kept for parsing.
C18_ParseBufferBounded ==
  hasOnOutput => Len(parseBuffer) <= CONTAINER_MAX_OUTPUT_SIZE

\* a callback that was chained and has not ended
Outstanding(k) == outputChain[k].st \in {"pending", "running"}

\* C19 as stated: on every path the result is settled only when no chained
\* callback is pending or running.
C19_Original == promise.settled => \A k \in Links : ~Outstanding(k)

\* C19: the result is settled while a chained callback is pending or running
\* only when a spawned worker closed with a non-zero exit code and no timeout
\* had fired; on exit 0, after a timeout and after a failed spawn every
\* chained callback has ended before the result is settled.
C19_DrainedUnlessNonZeroExit ==
  (promise.settled /\ \E k \in Links : Outstanding(k)) =>
    (closed /\ proc = "exited" /\ ~timedOut /\ exitCode # "0")

\* the error of a non-zero exit is settled while a callback is running
C19_Witness ==
  /\ promise.settled
  /\ promise.value.status = "error"
  /\ exitCode = "1"
  /\ \E k \in Links : outputChain[k].st = "running"

\* C20: under fair scheduling, and with every called callback ending, a
\* record that was parsed in streaming mode has its callback called, also
\* when the callback of a record before it failed.
C20_EveryRecordDelivered ==
  \A k \in 1..2 : (Len(outputChain) >= k) ~> (Len(outputChain) >= k /\ Started(k))

\* what a single scan of a text leaves unconsumed
RECURSIVE RefRestFrom(_, _)
RefRestFrom(t, from) ==
  LET s == FirstAt(t, S, from)
      e == IF s = 0 THEN 0 ELSE FirstAt(t, E, s)
  IN  IF s = 0 \/ e = 0 THEN SubSeq(t, from, Len(t))
      ELSE RefRestFrom(t, e + Len(E))

\* C21: whatever the split of the stdout text into chunks, the records
\* chained for delivery, the session id kept and what stays in the parse
\* buffer are those of a single scan of the text delivered so far: first
\* start marker, first end marker at or after it, the trimmed text between.
C21_ChunkIndependent ==
  /\ ChainRecs = RefRecords(Delivered)
  /\ newSessionId = LastSid(RefRecords(Delivered))
  /\ parseBuffer = RefRestFrom(Delivered, 1)

\* one record was parsed and the last chunk ended inside the start marker of
\* the next record
C21_Witness ==
  /\ Len(outputChain) = 1
  /\ Len(RefRecords(text)) = 2
  /\ Len(parseBuffer) >= 2
  /\ parseBuffer[Len(parseBuffer)] = "S"

\* C22: a stdout chunk that chains no record, in particular one that
\* completes a malformed record, leaves the timer, the streaming-output flag
\* and the session id as they were; a worker that was timed out having
\* written no well-formed record is resolved with the timeout error.
C22_MalformedDoesNotCount ==
  [][/\ (hasOnOutput /\ pos' > pos /\ Len(outputChain') = Len(outputChain)) =>
          /\ timeout' = timeout
          /\ hadStreamingOutput' = hadStreamingOutput
          /\ newSessionId' = newSessionId
     /\ (closed' /\ proc' = "exited" /\ timedOut'
          /\ RefRecords(SubSeq(text, 1, pos')) = <<>>) =>
          /\ promise'.settled
          /\ promise'.value.status = "error"
          /\ promise'.value.error = <<"Railway agent timed out after ",
                                      ToString(configTimeout), "ms">>]_vars

\* a streaming worker wrote a malformed record and nothing well-formed, was
\* timed out, and the invocation resolved as an error
C22_Witness ==
  /\ hasOnOutput /\ closed /\ timedOut
  /\ RefBodies(Delivered) # <<>>
  /\ outputChain = <<>>
  /\ promise.settled /\ promise.value.status = "error"

\* needle occurs in hay
Contains(hay, needle) ==
  \E i \in 0..(Len(hay) - Len(needle)) : MatchAt(hay, needle, i)

\* a legacy invocation closed with code 0 without timeout, and neither a
\* complete record of the captured stdout nor its last line is JSON
LegacyUnparsable ==
  /\ ~hasOnOutput /\ closed /\ proc = "exited" /\ ~timedOut /\ exitCode = "0"
  /\ \A i \in 1..Len(RefBodies(stdout)) : ~JSONparse(RefBodies(stdout)[i]).ok
  /\ ~JSONparse(LastNonEmptyLine(stdout)).ok

\* C23 as stated: the invocation is then resolved with an error whose value
\* holds the parse exception together with the raw captured output.
C23_Original ==
  LegacyUnparsable =>
    /\ promise.settled
    /\ promise.value.status = "error"
    /\ Contains(promise.value.error, <<"SyntaxError">>)
    /\ Contains(promise.value.error, stdout)

\* C23: the invocation is then resolved with an error whose value is
\* "Failed to parse output: " followed by the message of the parse exception,
\* and nothing of the captured output.
C23_ParseFailure ==
  LegacyUnparsable =>
    /\ promise.settled
    /\ promise.value = [status |-> "error", result |-> "null",
                        newSessionId |-> "undefined",
                        error |-> <<"Failed to parse output: ", "SyntaxError">>]

\* the captured stdout holds a complete record that is not JSON
C23_Witness ==
  /\ LegacyUnparsable
  /\ RefBodies(stdout) # <<>>
  /\ promise.value.status = "error"

\* C24: a stderr chunk, also one that carries a complete record, leaves the
\* stdout buffer and its flag, the parse buffer, the session id, the
\* streaming-output flag, the timer and the output chain as they were; a
\* stdout chunk leaves the stderr buffer and its flag as they were.
C24_StreamsApart ==
  [][/\ errPos' # errPos =>
          UNCHANGED <<stdout, stdoutTruncated, parseBuffer, newSessionId,
                      hadStreamingOutput, timeout, outputChain>>
     /\ pos' # pos => UNCHANGED <<stderr, stderrTruncated>>]_vars

\* a streaming invocation received a complete record on stderr and text on
\* stdout, and no record was parsed
C24_Witness ==
  /\ hasOnOutput
  /\ RefRecords(stderr) # <<>>
  /\ pos > 0
  /\ outputChain = <<>>
  /\ ~hadStreamingOutput
  /\ newSessionId = "undefined"

\* C25: onProcess has been called exactly once, with the child and the run
\* identifier, from the step after the spawn on; before the call nothing was
\* written to stdin, the timer is not armed and no stdout, stderr, close,
\* error or timer event has been handled.
C25_OnProcessOnce ==
  /\ Len(handles) = (IF pc = "onProcess" THEN 0 ELSE 1)
  /\ handles # <<>> => handles[1] = [child |-> "child", name |-> "processName"]
  /\ handles = <<>> =>
       /\ stdin = "open"
       /\ timeout = Off
       /\ pos = 0 /\ errPos = 0
       /\ ~closed /\ ~errored /\ ~timedOut

\* one call of onProcess, and the invocation went on to stdout data, a
\* timeout, the close and a settled result
C25_Witness ==
  /\ Len(handles) = 1
  /\ stdin # "open"
  /\ pos > 0
  /\ timedOut
  /\ closed
  /\ promise.settled

\* C26 as stated: the delay armed on spawn and on every reset is the larger
\* of T and the idle threshold plus the margin, T being the override whenever
\* one is configured and the default otherwise.
C26_Original ==
  armed # Off =>
    LET T == IF policy.override.set THEN policy.override.ms ELSE policy.default
    IN  armed = (IF T > policy.idle + SafetyMargin THEN T
                                                   ELSE policy.idle + SafetyMargin)

\* C26: the delay armed on spawn and on every reset is the larger of T and
\* the idle threshold plus the margin, T being the override when one is
\* configured and is not 0, and the default otherwise; it is never below the
\* idle threshold plus the margin.
C26_EffectiveTimeout ==
  armed # Off =>
    LET T == IF policy.override.set /\ policy.override.ms # 0
               THEN policy.override.ms ELSE policy.default
    IN  /\ armed = (IF T > policy.idle + SafetyMargin THEN T
                                                       ELSE policy.idle + SafetyMargin)
        /\ armed >= policy.idle + SafetyMargin

\* an override of 0 with a default above the floor: the timer was armed and
\* reset with the default
C26_Witness ==
  /\ rearms = MaxRearms
  /\ policy.override = [set |-> TRUE, ms |-> 0]
  /\ policy.default > policy.idle + SafetyMargin
  /\ armed = policy.default

\* C27: once the close event has been handled no signal is sent to the
\* worker any more, and the timeout timer is off from the close on; an
\* escalation timer that is still pending at the close sends nothing when it
\* fires.
C27_NoSignalAfterClose ==
  [][/\ closed => signals' = signals
     /\ closed' => timeout' = Off]_vars

\* the close has been handled, an escalation timer is due, and child.killed
\* is false, so that its callback calls child.kill('SIGKILL')
C27_Witness ==
  /\ closed
  /\ killTimers # <<>>
  /\ Head(killTimers) = 0
  /\ ~killed

====
